---- MODULE Spec2Model ----
(***************************************************************************)
(* Task queue of the caregiver backend (src/backend/main.py):              *)
(*   - generate_tasks_from_sources : the background scan (Task Generator)  *)
(*   - get_tasks                   : the list operation + Relevance Filter *)
(*   - accept_task / dismiss_task  : the Task lifecycle and executors      *)
(* Request handlers and background tasks are plain `def` functions, which  *)
(* the server runs on pool threads: each handler is a process whose steps  *)
(* are the stretches of code between two blocking adapter calls.           *)
(*                                                                         *)
(* Python strings are sequences of one-character strings.                  *)
(***************************************************************************)
EXTENDS Integers, Sequences, FiniteSets, TLC

(***************************************************************************)
(* Bounds of the model.                                                    *)
(***************************************************************************)
NumEmails   == 2   \* unread message ids the mailbox can return
LifeEmails  == 1   \* the same, in the runs of the accept and dismiss requests
NumUpdates  == 1   \* chat updates the bot API can return
NumScanners == 2   \* pool threads that can run a background scan
NumWorkers  == 1   \* pool threads that can run accept_task / dismiss_task
MaxSends    == 2   \* replies sent for one task before the model stops accepting it

Scanners == 1..NumScanners
Workers  == 1..NumWorkers

(***************************************************************************)
(* Strings.                                                                *)
(***************************************************************************)
None == <<"None">>          \* Python's None for an Optional[str]

Truthy(x) == x # None /\ x # <<>>

UpperChars == <<"A","B","C","D","E","F","G","H","I","J","K","L","M","N","O","P","Q","R","S","T","U","V","W","X","Y","Z">>
LowerChars == <<"a","b","c","d","e","f","g","h","i","j","k","l","m","n","o","p","q","r","s","t","u","v","w","x","y","z">>

LowerChar(c) ==
    IF \E i \in 1..26 : UpperChars[i] = c
    THEN LowerChars[CHOOSE i \in 1..26 : UpperChars[i] = c]
    ELSE c

\* str.lower()
Lower(s) == [i \in 1..Len(s) |-> LowerChar(s[i])]

\* `sub in s`
Contains(s, sub) ==
    \E i \in 0..(Len(s) - Len(sub)) : SubSeq(s, i + 1, i + Len(sub)) = sub

\* a + b
Concat(a, b) == a \o b

IsSpace(c) == c = " "

\* str.strip()
RECURSIVE Strip(_)
Strip(s) ==
    IF s = <<>> THEN s
    ELSE IF IsSpace(Head(s)) THEN Strip(Tail(s))
    ELSE IF IsSpace(s[Len(s)]) THEN Strip(SubSeq(s, 1, Len(s) - 1))
    ELSE s

\* str.replace(ch, "")
RECURSIVE RemoveChar(_, _)
RemoveChar(s, ch) ==
    IF s = <<>> THEN s
    ELSE IF Head(s) = ch THEN RemoveChar(Tail(s), ch)
    ELSE <<Head(s)>> \o RemoveChar(Tail(s), ch)

\* str.split(ch): the sequence of pieces
RECURSIVE Split(_, _)
Split(s, ch) ==
    IF \A i \in 1..Len(s) : s[i] # ch THEN <<s>>
    ELSE LET k == CHOOSE i \in 1..Len(s) : s[i] = ch /\ \A j \in 1..(i - 1) : s[j] # ch
         IN  <<SubSeq(s, 1, k - 1)>> \o Split(SubSeq(s, k + 1, Len(s)), ch)

\* dict.get(key, default)
Get(d, key, default) == IF key \in DOMAIN d THEN d[key] ELSE default

Range(f) == {f[i] : i \in DOMAIN f}

(***************************************************************************)
(* The outside world: the mailbox, the chat bot, the classifier.           *)
(***************************************************************************)
S_DrSmith    == <<"D","r","."," ","S","m","i","t","h"," ","<","d","r","s","m","i","t","h","@","c","l","i","n","i","c",".","c","o","m",">">>
S_Checkup    == <<"C","h","e","c","k","u","p">>
S_JaneBody   == <<"J","a","n","e"," ","D","o","e"," ","i","s"," ","f","i","n","e">>
S_NoReply    == <<"n","o","r","e","p","l","y","@","e","x","a","m","p","l","e",".","c","o","m">>
S_Newsletter == <<"W","e","e","k","l","y"," ","N","e","w","s","l","e","t","t","e","r">>
S_Unrelated  == <<"U","n","r","e","l","a","t","e","d"," ","<","x","@","y",".","c","o","m",">">>
S_ReJane     == <<"R","e",":"," ","J","a","n","e"," ","D","o","e"," ","c","h","e","c","k","u","p">>
S_Spam       == <<"s","p","a","m","@","u","n","k","n","o","w","n",".","c","o","m">>
S_Hello      == <<"H","e","l","l","o">>
S_JaneDoe    == <<"J","a","n","e"," ","D","o","e">>
S_DrEmail    == <<"d","r","s","m","i","t","h","@","c","l","i","n","i","c",".","c","o","m">>
S_Smith      == <<"S","m","i","t","h">>
S_Ann        == <<"A","n","n">>
S_Re         == <<"R","e",":"," ">>

\* a Gmail message id / the ledger key of a chat update (f"tg_{update_id}")
MsgId(n) == <<"m", n>>
TgKey(u) == <<"tg_", u>>

\* what reader.get_email_by_id returns for message n when the API call succeeds
EmailOf(n) ==
    LET k == n % 3
    IN  IF k = 1 THEN [id |-> MsgId(n), sender |-> S_DrSmith,   subject |-> S_Checkup,    body |-> S_JaneBody]
        ELSE IF k = 2 THEN [id |-> MsgId(n), sender |-> S_NoReply, subject |-> S_Newsletter, body |-> <<>>]
        ELSE [id |-> MsgId(n), sender |-> S_Unrelated, subject |-> S_ReJane, body |-> S_Hello]

\* one element of the getUpdates result: a message, an update of another kind
\* (no 'message' key), or a message without a 'from' field
TgUpdateOf(u) ==
    LET k == u % 3
    IN  IF k = 1 THEN [update_id |-> u,
                       message |-> [chat |-> [id |-> 7], text |-> S_JaneBody, from |-> [first_name |-> S_Ann]]]
        ELSE IF k = 2 THEN [update_id |-> u]
        ELSE [update_id |-> u, message |-> [chat |-> [id |-> 7], text |-> S_Hello]]

\* the ascending sequence of the elements of a set of numbers
RECURSIVE SortedSeq(_)
SortedSeq(S) ==
    IF S = {} THEN <<>>
    ELSE LET m == CHOOSE x \in S : \A y \in S : x <= y
         IN  <<m>> \o SortedSeq(S \ {m})

\* the batches a fetch can return
EmailBatches == {SortedSeq(S) : S \in SUBSET (1..NumEmails)}
TgBatches    == {SortedSeq(S) : S \in SUBSET (1..NumUpdates)}
LifeBatches  == {SortedSeq(S) : S \in SUBSET (1..LifeEmails)}

\* the urgency levels the classifier answers with
Urgencies == {"low", "medium"}


automated_senders ==
    { <<"n","o","r","e","p","l","y","@">>,
      <<"n","o","-","r","e","p","l","y","@">>,
      <<"m","a","i","l","e","r","-","d","a","e","m","o","n","@">>,
      <<"p","o","s","t","m","a","s","t","e","r","@">>,
      <<"n","o","t","i","f","i","c","a","t","i","o","n","s","@">>,
      <<"m","a","r","k","e","t","i","n","g","@">>,
      <<"p","r","o","m","o","@">>,
      <<"d","o","n","o","t","r","e","p","l","y","@">> }

spam_keywords ==
    { <<"u","n","s","u","b","s","c","r","i","b","e">>,
      <<"n","e","w","s","l","e","t","t","e","r">>,
      <<"l","i","m","i","t","e","d"," ","t","i","m","e"," ","o","f","f","e","r">>,
      <<"c","l","i","c","k"," ","h","e","r","e"," ","t","o"," ","v","e","r","i","f","y">>,
      <<"v","e","r","i","f","y"," ","y","o","u","r"," ","e","m","a","i","l">>,
      <<"c","o","n","f","i","r","m"," ","y","o","u","r"," ","a","c","c","o","u","n","t">>,
      <<"r","e","s","e","t"," ","y","o","u","r"," ","p","a","s","s","w","o","r","d">>,
      <<"s","i","g","n","-","i","n"," ","a","t","t","e","m","p","t">>,
      <<"t","w","o","-","f","a","c","t","o","r">>,
      <<"2","f","a">>,
      <<"o","t","p">>,
      <<"v","e","r","i","f","i","c","a","t","i","o","n"," ","c","o","d","e">> }

scheduling_words ==
    { <<"a","p","p","o","i","n","t">>,
      <<"s","c","h","e","d","u","l","e">>,
      <<"m","e","e","t">>,
      <<"t","i","m","e">>,
      <<"d","a","t","e">> }

\* content = (email['subject'] + ' ' + email['body']).lower()
ContentOf(email) == Lower(Concat(Concat(email.subject, <<" ">>), email.body))

\* the light filter: automated senders and spam/promo/automated subjects
IsAutomatedSender(email) ==
    \E ns \in automated_senders : Contains(Lower(Get(email, "sender", <<>>)), ns)

IsSpam(email) ==
    \E sp \in spam_keywords : Contains(ContentOf(email), sp)

\* the condition under which the scheduling extraction is invoked
SuggestsScheduling(email, analysis) ==
    \/ \E w \in scheduling_words : Contains(ContentOf(email), w)
    \/ Get(analysis, "intent", "") = "appointment"

\* what analyze_email_intent can return (the model's answer, or the
\* defaults it falls back to on an error)
Analyses ==
    [intent : {"appointment", "question"}, urgency : Urgencies, requires_reply : BOOLEAN]

S_Iso == <<"2","0","2","6","-","0","3","-","0","2","T","1","0",":","0","0",":","0","0">>

\* the messages of the mailbox the light filter drops
LightFiltered ==
    {n : n \in {m \in 1..NumEmails : IsAutomatedSender(EmailOf(m)) \/ IsSpam(EmailOf(m))}}

\* the messages of the mailbox and the answers of the classifier for which
\* the scheduling extraction is invoked
SchedulingSuggested ==
    {p : p \in {q \in (1..NumEmails) \X Analyses : SuggestsScheduling(EmailOf(q[1]), q[2])}}

\* what extract_scheduling_info can return: no proposal, a proposal without
\* a date and time, a proposal with one
SchedInfos ==
    { [has_proposal |-> FALSE],
      [has_proposal |-> TRUE],
      [has_proposal |-> TRUE, datetime_iso |-> S_Iso] }

\* sched_info.get('has_proposal') and sched_info.get('datetime_iso')
HasConcreteProposal(sched_info) ==
    /\ Get(sched_info, "has_proposal", FALSE)
    /\ Get(sched_info, "datetime_iso", <<>>) # <<>>

\* the outcomes of the calendar check: is_free answers True or False, or
\* building the service, parsing the date or the query raises
CalendarAnswers == {"free", "busy", "error"}

\* the calendar check is made only for a proposal with a date and time
CalendarOutcomes(sched_info) ==
    IF HasConcreteProposal(sched_info) THEN CalendarAnswers ELSE {"none"}

\* the availability context whatever the calendar says: always a confirm
ContextAlwaysConfirm(sched_info, cal) ==
    IF HasConcreteProposal(sched_info) THEN "confirm" ELSE ""

\* availability_context, by the stance it directs: "" when no check was
\* made or the check failed
AvailabilityContext(sched_info, cal) ==
    IF HasConcreteProposal(sched_info)
    THEN IF cal = "free" THEN "confirm"
         ELSE IF cal = "busy" THEN "decline"
         ELSE ""
    ELSE ""

\* the skip decision taken without the scheduling proposal
SkipWithoutProposal(analysis, sched_info) ==
    /\ ~ Get(analysis, "requires_reply", FALSE)
    /\ Get(analysis, "urgency", "") = "low"

\* skip only if low urgency AND no reply needed AND no scheduling context
ShouldSkip(analysis, sched_info) ==
    /\ ~ Get(analysis, "requires_reply", FALSE)
    /\ Get(analysis, "urgency", "") = "low"
    /\ ~ Get(sched_info, "has_proposal", FALSE)

\* the reply generate_reply drafts for an email
DraftOf(email) == [subject |-> Concat(S_Re, email.subject), body |-> S_Hello]

S_ReplyTo     == <<"R","e","p","l","y"," ","t","o"," ">>
S_Regarding   == <<"R","e","g","a","r","d","i","n","g",":"," ">>
S_MessageFrom == <<"M","e","s","s","a","g","e"," ","f","r","o","m"," ">>
S_Telegram    == <<"T","e","l","e","g","r","a","m",":"," ">>
S_Dots        == <<".",".",".">>
S_Unknown     == <<"U","n","k","n","o","w","n">>

\* Task.created_at defaults to str(datetime.now()) evaluated once, when the
\* class is defined
ClassDefTime == 0

\* text[:n]
Prefix(s, n) == SubSeq(s, 1, IF Len(s) < n THEN Len(s) ELSE n)

\* Task(...) built for an email; `src` is a history field: the source item
\* the task was made from.  id stands for str(uuid.uuid4()): a fresh value.
EmailTask(fresh, n, email, analysis) ==
    [ id          |-> fresh,
      type        |-> "email_reply",
      title       |-> Concat(S_ReplyTo, email.sender),
      description |-> Concat(S_Regarding, email.subject),
      urgency     |-> Get(analysis, "urgency", "medium"),
      status      |-> "pending",
      payload     |-> [email_id |-> MsgId(n), draft_reply |-> DraftOf(email), original_email |-> email],
      created_at  |-> ClassDefTime,
      src         |-> MsgId(n) ]

\* Task(...) built for a chat update
TelegramTask(fresh, update) ==
    LET text   == Get(update.message, "text", <<>>)
        sender == Get(update.message.from, "first_name", S_Unknown)
    IN  [ id          |-> fresh,
          type        |-> "telegram_reply",
          title       |-> Concat(S_MessageFrom, sender),
          description |-> Concat(Concat(S_Telegram, Prefix(text, 50)), S_Dots),
          urgency     |-> "medium",
          status      |-> "pending",
          payload     |-> [chat_id |-> update.message.chat.id, text |-> text, sender |-> sender],
          created_at  |-> ClassDefTime,
          src         |-> TgKey(update.update_id) ]

(***************************************************************************)
(* State.                                                                  *)
(***************************************************************************)
VARIABLES
    TASKS,          \* the Task Store: a list of Task records
    PROCESSED_IDS,  \* the Deduplication Ledger
    IS_SCANNING,    \* the in-flight flag of the scan
    sc,             \* sc[s]: the background scan running on pool thread s
    wk,             \* wk[w]: the accept/dismiss request running on pool thread w
    sent,           \* sent[i]: replies sent by the executor for TASKS[i]
    markedRead,     \* message ids the mailbox has marked read
    calendar,       \* positions of the tasks a calendar event was created for
    resp,           \* the last response of accept_task / dismiss_task
    lastList,       \* the patient context and the response of the last list call
    runs,           \* history: the store size and the ledger at the end of the
                    \* last two completed scans
    verdict,        \* history: the classifier's answers, the calendar's answer
                    \* and the context given to the drafting, for the email
                    \* that was last evaluated past the light filter
    inbox,          \* the unread batch and the pending chat updates, for the
                    \* runs in which the sources do not change
    ag              \* the run_agent call: its loop index, its conversation,
                    \* its actions_taken and what it returned

vars == <<TASKS, PROCESSED_IDS, IS_SCANNING, sc, wk, sent, markedRead, resp, lastList, runs, verdict, calendar, inbox, ag>>

IdleScan == [pc |-> "idle", q |-> <<>>, cur |-> 0]

\* no run_agent call yet; `calls` counts the model calls of the current run
NoReturn == [response |-> "none", actions_taken |-> <<>>, success |-> FALSE]

IdleAgent == [pc |-> "idle", max_iterations |-> 0, i |-> 0, calls |-> 0,
              contents |-> <<>>, actions_taken |-> <<>>, ret |-> NoReturn]

IdleWork == [pc |-> "idle", tid |-> 0, idx |-> 0]

\* the response to the request `op`: its status code
Response(op, code) == [op |-> op, code |-> code]

NoResponse == Response("none", 0)

\* no email has been evaluated past the light filter
NoVerdict == [key |-> <<"none", 0>>, analysis |-> <<>>, sched_info |-> <<>>,
              cal |-> "none", context |-> ""]

NoList == [ctx |-> [patient_name |-> None, doctor_emails |-> None,
                    doctor_names |-> None, contact_emails |-> None],
           out |-> <<>>]

\* a scan that is past the entry check and has not yet returned
InScan(s) == sc[s].pc \notin {"idle", "entry"}

\* the completed-scan history keeps the last two entries
Remember(h, r) == IF Len(h) < 2 THEN Append(h, r) ELSE <<h[2], r>>

\* the ledger check left out
NeverProcessed(key, ledger) == FALSE

\* msg_id in PROCESSED_IDS
AlreadyProcessed(key, ledger) == key \in ledger

(***************************************************************************)
(* generate_tasks_from_sources                                             *)
(***************************************************************************)
\* if IS_SCANNING: return
ScanEntry(s) ==
    /\ sc[s].pc = "entry"
    /\ IF IS_SCANNING
       THEN sc' = [sc EXCEPT ![s] = IdleScan]
       ELSE sc' = [sc EXCEPT ![s].pc = "set"]
    /\ UNCHANGED <<TASKS, PROCESSED_IDS, IS_SCANNING, wk, sent, markedRead, resp, lastList, runs, verdict, calendar, inbox, ag>>

\* IS_SCANNING = True
ScanSet(s) ==
    /\ sc[s].pc = "set"
    /\ IS_SCANNING' = TRUE
    /\ sc' = [sc EXCEPT ![s].pc = "list"]
    /\ UNCHANGED <<TASKS, PROCESSED_IDS, wk, sent, markedRead, resp, lastList, runs, verdict, calendar, inbox, ag>>

\* no try around the email source: a failure of the list call ends the scan
ScanEmailListRaises(s, batches, canRaise) ==
    /\ sc[s].pc = "list"
    /\ \/ \E b \in batches :
             sc' = [sc EXCEPT ![s].pc = "item", ![s].q = b]
       \/ /\ canRaise
          /\ sc' = [sc EXCEPT ![s] = IdleScan]
    /\ UNCHANGED <<TASKS, PROCESSED_IDS, IS_SCANNING, wk, sent, markedRead, resp, lastList, runs, verdict, calendar, inbox, ag>>

\* reader = get_gmail_reader(); messages = ...list(q='is:unread').execute()
\* the call returns a batch, or raises and control goes to the chat source
ScanEmailList(s, batches, canRaise) ==
    /\ sc[s].pc = "list"
    /\ \/ \E b \in batches :
             sc' = [sc EXCEPT ![s].pc = "item", ![s].q = b]
       \/ /\ canRaise
          /\ sc' = [sc EXCEPT ![s].pc = "tg"]
    /\ UNCHANGED <<TASKS, PROCESSED_IDS, IS_SCANNING, wk, sent, markedRead, resp, lastList, runs, verdict, calendar, inbox, ag>>

\* for msg in messages['messages']: the ledger check and get_email_by_id,
\* which returns the email, returns None (HttpError), or raises
ScanEmailItem(s) ==
    /\ sc[s].pc = "item"
    /\ IF sc[s].q = <<>>
       THEN sc' = [sc EXCEPT ![s].pc = "tg"]
       ELSE LET n == Head(sc[s].q)
            IN  IF AlreadyProcessed(MsgId(n), PROCESSED_IDS)
                THEN sc' = [sc EXCEPT ![s].q = Tail(@)]
                ELSE \/ sc' = [sc EXCEPT ![s].q = Tail(@), ![s].cur = n, ![s].pc = "work"]
                     \/ sc' = [sc EXCEPT ![s].q = Tail(@)]
                     \/ sc' = [sc EXCEPT ![s].q = <<>>, ![s].pc = "tg"]
    /\ UNCHANGED <<TASKS, PROCESSED_IDS, IS_SCANNING, wk, sent, markedRead, resp, lastList, runs, verdict, calendar, inbox, ag>>

\* the light filter left out: every fetched email goes to the classifier
ScanEmailWorkUnfiltered(s, hist) ==
    /\ sc[s].pc = "work"
    /\ LET n     == sc[s].cur
           email == EmailOf(n)
       IN  \E analysis \in Analyses :
           \E sched_info \in (IF <<n, analysis>> \in SchedulingSuggested THEN SchedInfos ELSE {<<>>}) :
           \E cal \in CalendarOutcomes(sched_info) :
              /\ verdict' = IF hist
                            THEN [key |-> MsgId(n), analysis |-> analysis, sched_info |-> sched_info,
                                  cal |-> cal, context |-> AvailabilityContext(sched_info, cal)]
                            ELSE verdict
              /\ IF ShouldSkip(analysis, sched_info)
                 THEN /\ PROCESSED_IDS' = PROCESSED_IDS \cup {MsgId(n)}
                      /\ sc' = [sc EXCEPT ![s].pc = "item", ![s].cur = 0]
                      /\ UNCHANGED <<TASKS, sent>>
                 ELSE /\ TASKS' = Append(TASKS, EmailTask(Len(TASKS) + 1, n, email, analysis))
                      /\ sent' = Append(sent, 0)
                      /\ PROCESSED_IDS' = PROCESSED_IDS \cup {MsgId(n)}
                      /\ sc' = [sc EXCEPT ![s].pc = "item", ![s].cur = 0]
    /\ UNCHANGED <<IS_SCANNING, wk, markedRead, resp, lastList, runs, calendar, inbox, ag>>

\* the light filter, the classifier calls, and the Task for one email;
\* `hist` says whether the classifier's answers are entered in the history
ScanEmailWork(s, hist) ==
    /\ sc[s].pc = "work"
    /\ LET n     == sc[s].cur
           email == EmailOf(n)
       IN  IF n \in LightFiltered
           THEN /\ PROCESSED_IDS' = PROCESSED_IDS \cup {MsgId(n)}
                /\ sc' = [sc EXCEPT ![s].pc = "item", ![s].cur = 0]
                /\ UNCHANGED <<TASKS, sent, verdict>>
           ELSE \E analysis \in Analyses :
                \E sched_info \in (IF <<n, analysis>> \in SchedulingSuggested THEN SchedInfos ELSE {<<>>}) :
                \E cal \in CalendarOutcomes(sched_info) :
                   /\ verdict' = IF hist
                                 THEN [key |-> MsgId(n), analysis |-> analysis, sched_info |-> sched_info,
                                       cal |-> cal, context |-> AvailabilityContext(sched_info, cal)]
                                 ELSE verdict
                   /\ IF ShouldSkip(analysis, sched_info)
                      THEN /\ PROCESSED_IDS' = PROCESSED_IDS \cup {MsgId(n)}
                           /\ sc' = [sc EXCEPT ![s].pc = "item", ![s].cur = 0]
                           /\ UNCHANGED <<TASKS, sent>>
                      ELSE /\ TASKS' = Append(TASKS, EmailTask(Len(TASKS) + 1, n, email, analysis))
                           /\ sent' = Append(sent, 0)
                           /\ PROCESSED_IDS' = PROCESSED_IDS \cup {MsgId(n)}
                           /\ sc' = [sc EXCEPT ![s].pc = "item", ![s].cur = 0]
    /\ UNCHANGED <<IS_SCANNING, wk, markedRead, resp, lastList, runs, calendar, inbox, ag>>

\* updates = get_telegram_updates(): the result list, [] on any error
ScanTelegram(s, batches) ==
    /\ sc[s].pc = "tg"
    /\ \E b \in batches :
          sc' = [sc EXCEPT ![s].pc = "tgitem", ![s].q = b]
    /\ UNCHANGED <<TASKS, PROCESSED_IDS, IS_SCANNING, wk, sent, markedRead, resp, lastList, runs, verdict, calendar, inbox, ag>>

\* for update in updates: ...
ScanTelegramItem(s) ==
    /\ sc[s].pc = "tgitem"
    /\ IF sc[s].q = <<>>
       THEN /\ sc' = [sc EXCEPT ![s].pc = "clear"]
            /\ UNCHANGED <<TASKS, PROCESSED_IDS, sent>>
       ELSE LET u      == Head(sc[s].q)
                update == TgUpdateOf(u)
            IN  IF AlreadyProcessed(TgKey(u), PROCESSED_IDS)
                THEN /\ sc' = [sc EXCEPT ![s].q = Tail(@)]
                     /\ UNCHANGED <<TASKS, PROCESSED_IDS, sent>>
                ELSE IF "message" \in DOMAIN update
                THEN IF "from" \in DOMAIN update.message
                     THEN /\ TASKS' = Append(TASKS, TelegramTask(Len(TASKS) + 1, update))
                          /\ sent' = Append(sent, 0)
                          /\ PROCESSED_IDS' = PROCESSED_IDS \cup {TgKey(u)}
                          /\ sc' = [sc EXCEPT ![s].q = Tail(@)]
                     ELSE \* update['message']['from'] raises KeyError
                          /\ sc' = [sc EXCEPT ![s].q = <<>>, ![s].pc = "clear"]
                          /\ UNCHANGED <<TASKS, PROCESSED_IDS, sent>>
                ELSE /\ sc' = [sc EXCEPT ![s].q = Tail(@)]
                     /\ UNCHANGED <<TASKS, PROCESSED_IDS, sent>>
    /\ UNCHANGED <<IS_SCANNING, wk, markedRead, resp, lastList, runs, verdict, calendar, inbox, ag>>

\* IS_SCANNING = False; `hist` says whether the run is entered in the history
ScanClear(s, hist) ==
    /\ sc[s].pc = "clear"
    /\ IS_SCANNING' = FALSE
    /\ runs' = IF hist
               THEN Remember(runs, [size |-> Len(TASKS), ledger |-> PROCESSED_IDS])
               ELSE runs
    /\ sc' = [sc EXCEPT ![s] = IdleScan]
    /\ UNCHANGED <<TASKS, PROCESSED_IDS, wk, sent, markedRead, resp, lastList, verdict, calendar, inbox, ag>>


(***************************************************************************)
(* get_tasks: the list operation and the Relevance Filter                  *)
(***************************************************************************)
\* the stripped, lower-cased, non-empty pieces of a comma-separated list
ListItems(csv) ==
    IF Truthy(csv)
    THEN {Lower(Strip(p)) : p \in Range(Split(csv, ","))} \ {<<>>}
    ELSE {}

\* known_emails: doctor_emails and contact_emails
KnownEmails(ctx) == ListItems(ctx.doctor_emails) \cup ListItems(ctx.contact_emails)

\* known_names: doctor_names and the patient name
KnownNames(ctx) ==
    ListItems(ctx.doctor_names)
        \cup (IF Truthy(ctx.patient_name) THEN {Lower(Strip(ctx.patient_name))} ELSE {})

\* the scoping test with contact_emails counted as patient context
NoContextAtAll(ctx) ==
    /\ ~ Truthy(ctx.patient_name)
    /\ ~ Truthy(ctx.doctor_emails)
    /\ ~ Truthy(ctx.doctor_names)
    /\ ~ Truthy(ctx.contact_emails)

\* not patient_name and not doctor_emails and not doctor_names
NoPatientContext(ctx) ==
    /\ ~ Truthy(ctx.patient_name)
    /\ ~ Truthy(ctx.doctor_emails)
    /\ ~ Truthy(ctx.doctor_names)

\* the bare address of a lower-cased sender field
SenderEmail(sender) ==
    IF Contains(sender, <<"<">>)
    THEN Strip(RemoveChar(Split(sender, "<")[2], ">"))
    ELSE sender

\* the prescription_refill and health_alert branches: bool(patient_name)
PatientScoped(ctx) == Truthy(ctx.patient_name)

is_relevant(task, ctx) ==
    LET payload == Get(task, "payload", <<>>)
    IN  IF task.type = "email_reply"
        THEN LET original == Get(payload, "original_email", <<>>)
                 sender   == Lower(Get(original, "sender", <<>>))
                 subject  == Lower(Get(original, "subject", <<>>))
                 body     == Lower(Get(original, "body", <<>>))
             IN  \/ SenderEmail(sender) \in KnownEmails(ctx)
                 \/ \E name \in KnownNames(ctx) :
                       /\ Len(name) >= 3
                       /\ Contains(sender, name) \/ Contains(subject, name)
                 \/ /\ Truthy(ctx.patient_name)
                    /\ LET pn == Lower(Strip(ctx.patient_name))
                       IN  Len(pn) >= 3 /\ (Contains(subject, pn) \/ Contains(body, pn))
        ELSE IF task.type = "telegram_reply"
        THEN LET text      == Lower(Get(payload, "text", <<>>))
                 tg_sender == Lower(Get(payload, "sender", <<>>))
             IN  \/ Truthy(ctx.patient_name) /\ Contains(text, Lower(Strip(ctx.patient_name)))
                 \/ \E name \in KnownNames(ctx) : name # <<>> /\ Contains(tg_sender, name)
        ELSE IF task.type = "appointment_scheduler"
        THEN LET doctor == Lower(Get(payload, "doctor", <<>>))
             IN  \E name \in KnownNames(ctx) : name # <<>> /\ Contains(doctor, name)
        ELSE IF task.type \in {"prescription_refill", "health_alert"}
        THEN PatientScoped(ctx)
        ELSE FALSE

\* the status test left out: every task of the store is listed
IsAnyStatus(t) == TRUE

IsPending(t) == t.status = "pending"

\* the filter applied to the drafted reply as well as to the original email
ListResultWithDraft(tasks, ctx) ==
    LET pending == SelectSeq(tasks, IsPending)
        drafted(t) == IF t.type = "email_reply"
                      THEN [t EXCEPT !.payload.original_email.subject = t.payload.draft_reply.subject,
                                     !.payload.original_email.body = t.payload.draft_reply.body]
                      ELSE t
    IN  IF NoPatientContext(ctx) THEN <<>>
        ELSE SelectSeq(pending, LAMBDA t : is_relevant(t, ctx) \/ is_relevant(drafted(t), ctx))

\* the response body of get_tasks
ListResult(tasks, ctx) ==
    LET pending == SelectSeq(tasks, IsPending)
    IN  IF NoPatientContext(ctx) THEN <<>>
        ELSE SelectSeq(pending, LAMBDA t : is_relevant(t, ctx))

\* a response that lists the newest task first
IdsNewestFirst(ts) == [i \in 1..Len(ts) |-> ts[Len(ts) + 1 - i].id]

\* the ids of the returned tasks, in the order of the list comprehension
IdsOf(ts) == [i \in 1..Len(ts) |-> ts[i].id]

\* the scan run inside the request, before the response is computed: here
\* the chat message of the poll is in the store when the tasks are listed
get_tasks_after_scan(ctx, pool) ==
    /\ \E s \in pool :
          /\ sc[s].pc = "idle"
          /\ \A o \in pool : o < s => sc[o].pc # "idle"
          /\ sc' = [sc EXCEPT ![s].pc = "entry"]
    /\ TASKS' = Append(TASKS, TelegramTask(Len(TASKS) + 1, TgUpdateOf(1)))
    /\ sent' = Append(sent, 0)
    /\ lastList' = [ctx |-> ctx, out |-> IdsOf(ListResult(TASKS', ctx))]
    /\ UNCHANGED <<PROCESSED_IDS, IS_SCANNING, wk, markedRead, resp, runs, verdict, calendar, inbox, ag>>

\* GET /tasks: the response is computed, then the scan attached with
\* background_tasks.add_task starts on a pool thread of `pool`
get_tasks(ctx, pool) ==
    /\ \E s \in pool :
          /\ sc[s].pc = "idle"
          /\ \A o \in pool : o < s => sc[o].pc # "idle"
          /\ sc' = [sc EXCEPT ![s].pc = "entry"]
    /\ lastList' = [ctx |-> ctx, out |-> IdsOf(ListResult(TASKS, ctx))]
    /\ UNCHANGED <<TASKS, PROCESSED_IDS, IS_SCANNING, wk, sent, markedRead, resp, runs, verdict, calendar, inbox, ag>>

(***************************************************************************)
(* accept_task and dismiss_task                                            *)
(***************************************************************************)
\* the lookup with a default: the first task when no task has the id
FindTaskOrFirst(tasks, task_id) ==
    IF \E i \in 1..Len(tasks) : tasks[i].id = task_id
    THEN CHOOSE i \in 1..Len(tasks) :
            tasks[i].id = task_id /\ \A j \in 1..(i - 1) : tasks[j].id # task_id
    ELSE IF tasks = <<>> THEN 0 ELSE 1

\* next((t for t in TASKS if t.id == task_id), None): the position of the
\* first task with that id, 0 for None
FindTask(tasks, task_id) ==
    IF \E i \in 1..Len(tasks) : tasks[i].id = task_id
    THEN CHOOSE i \in 1..Len(tasks) :
            tasks[i].id = task_id /\ \A j \in 1..(i - 1) : tasks[j].id # task_id
    ELSE 0

\* the executor calls of worker threads that are about to send for TASKS[i]
Sending(i) == Cardinality({v \in DOMAIN wk : wk[v].idx = i /\ wk[v].pc = "exec"})

\* an accept that waits while another request is working on the same task
AcceptStartSerialised(w, task_id) ==
    /\ wk[w].pc = "idle"
    /\ LET i == FindTask(TASKS, task_id)
       IN  IF i = 0
           THEN /\ resp' = Response("accept", 404)
                /\ UNCHANGED wk
           ELSE /\ \A v \in DOMAIN wk : wk[v].idx # i
                /\ sent[i] + Sending(i) < MaxSends
                /\ wk' = [wk EXCEPT ![w] = [pc |-> "exec", tid |-> task_id, idx |-> i]]
                /\ UNCHANGED resp
    /\ UNCHANGED <<TASKS, PROCESSED_IDS, IS_SCANNING, sc, sent, markedRead, lastList, runs, verdict, calendar, inbox, ag>>

\* POST /tasks/{task_id}/accept: the lookup
AcceptStart(w, task_id) ==
    /\ wk[w].pc = "idle"
    /\ LET i == FindTask(TASKS, task_id)
       IN  IF i = 0
           THEN /\ resp' = Response("accept", 404)
                /\ UNCHANGED wk
           ELSE /\ sent[i] + Sending(i) < MaxSends
                /\ wk' = [wk EXCEPT ![w] = [pc |-> "exec", tid |-> task_id, idx |-> i]]
                /\ UNCHANGED resp
    /\ UNCHANGED <<TASKS, PROCESSED_IDS, IS_SCANNING, sc, sent, markedRead, lastList, runs, verdict, calendar, inbox, ag>>

\* the exception handler of accept_task
Raise500(w) ==
    /\ resp' = Response("accept", 500)
    /\ wk' = [wk EXCEPT ![w] = IdleWork]

\* send_email raised and the exception is swallowed: the task completes
SendFailureIgnored(w) ==
    /\ wk' = [wk EXCEPT ![w].pc = "set"]
    /\ UNCHANGED <<TASKS, sent, markedRead, resp>>

\* send_email raised: the handler turns it into HTTP 500
SendFailed(w) ==
    /\ Raise500(w)
    /\ UNCHANGED <<TASKS, sent, markedRead>>

\* the calendar failure of the appointment executor surfaced to the caller
CalendarFailureRaised(w) ==
    /\ Raise500(w)
    /\ UNCHANGED calendar

\* except Exception as e: print(...) around the calendar calls: the failure
\* is logged and the request goes on to task.status = "completed"
CalendarFailed(w) ==
    /\ wk' = [wk EXCEPT ![w].pc = "set"]
    /\ UNCHANGED <<calendar, resp>>

\* an executor whose telegram_reply branch sends an acknowledgement instead
\* of `pass`
AcceptExecWithAck(w) ==
    /\ wk[w].pc = "exec"
    /\ LET i == wk[w].idx
       IN  IF TASKS[i].type = "email_reply"
           THEN /\ \/ /\ sent' = [sent EXCEPT ![i] = @ + 1]
                      /\ wk' = [wk EXCEPT ![w].pc = "mark"]
                      /\ UNCHANGED <<TASKS, markedRead, resp>>
                   \/ SendFailed(w)
                /\ UNCHANGED calendar
           ELSE IF TASKS[i].type = "appointment_scheduler"
           THEN /\ \/ /\ calendar' = calendar \cup {i}
                      /\ wk' = [wk EXCEPT ![w].pc = "set"]
                      /\ UNCHANGED resp
                   \/ CalendarFailed(w)
                /\ UNCHANGED <<TASKS, sent, markedRead>>
           ELSE /\ sent' = [sent EXCEPT ![i] = @ + 1]
                /\ wk' = [wk EXCEPT ![w].pc = "set"]
                /\ UNCHANGED <<TASKS, markedRead, resp, calendar>>
    /\ UNCHANGED <<PROCESSED_IDS, IS_SCANNING, sc, lastList, runs, verdict, inbox, ag>>

\* the executor of the task's type, up to its first adapter call
AcceptExec(w) ==
    /\ wk[w].pc = "exec"
    /\ LET i == wk[w].idx
       IN  IF TASKS[i].type = "email_reply"
           THEN /\ \/ /\ sent' = [sent EXCEPT ![i] = @ + 1]
                      /\ wk' = [wk EXCEPT ![w].pc = "mark"]
                      /\ UNCHANGED <<TASKS, markedRead, resp>>
                   \/ SendFailed(w)
                /\ UNCHANGED calendar
           ELSE IF TASKS[i].type = "appointment_scheduler"
           THEN /\ \/ /\ calendar' = calendar \cup {i}
                      /\ wk' = [wk EXCEPT ![w].pc = "set"]
                      /\ UNCHANGED resp
                   \/ CalendarFailed(w)
                /\ UNCHANGED <<TASKS, sent, markedRead>>
           ELSE /\ wk' = [wk EXCEPT ![w].pc = "set"]
                /\ UNCHANGED <<TASKS, sent, markedRead, resp, calendar>>
    /\ UNCHANGED <<PROCESSED_IDS, IS_SCANNING, sc, lastList, runs, verdict, inbox, ag>>

\* get_gmail_reader().mark_as_read(email_id): True, False (HttpError), or
\* another exception
AcceptMark(w) ==
    /\ wk[w].pc = "mark"
    /\ LET i == wk[w].idx
       IN  \/ /\ markedRead' = markedRead \cup {TASKS[i].payload.email_id}
              /\ wk' = [wk EXCEPT ![w].pc = "set"]
              /\ UNCHANGED resp
           \/ /\ wk' = [wk EXCEPT ![w].pc = "set"]
              /\ UNCHANGED <<markedRead, resp>>
           \/ /\ Raise500(w)
              /\ UNCHANGED markedRead
    /\ UNCHANGED <<TASKS, PROCESSED_IDS, IS_SCANNING, sc, sent, lastList, runs, verdict, calendar, inbox, ag>>

\* a status write that goes to the newest task of the store instead of the
\* task object the lookup returned
AcceptSetNewest(w) ==
    /\ wk[w].pc = "set"
    /\ TASKS' = [TASKS EXCEPT ![Len(TASKS)].status = "completed"]
    /\ resp' = Response("accept", 200)
    /\ wk' = [wk EXCEPT ![w] = IdleWork]
    /\ UNCHANGED <<PROCESSED_IDS, IS_SCANNING, sc, sent, markedRead, lastList, runs, verdict, calendar, inbox, ag>>

\* task.status = "completed"; return {"success": True, ...}
AcceptSet(w) ==
    /\ wk[w].pc = "set"
    /\ TASKS' = [TASKS EXCEPT ![wk[w].idx].status = "completed"]
    /\ resp' = Response("accept", 200)
    /\ wk' = [wk EXCEPT ![w] = IdleWork]
    /\ UNCHANGED <<PROCESSED_IDS, IS_SCANNING, sc, sent, markedRead, lastList, runs, verdict, calendar, inbox, ag>>

\* a dismiss that sets the status of every task of the store
DismissAll(w, task_id) ==
    /\ wk[w].pc = "idle"
    /\ LET i == FindTask(TASKS, task_id)
       IN  IF i = 0
           THEN /\ resp' = Response("dismiss", 404)
                /\ UNCHANGED TASKS
           ELSE /\ TASKS' = [j \in 1..Len(TASKS) |-> [TASKS[j] EXCEPT !.status = "dismissed"]]
                /\ resp' = Response("dismiss", 200)
    /\ UNCHANGED <<PROCESSED_IDS, IS_SCANNING, sc, wk, sent, markedRead, lastList, runs, verdict, calendar, inbox, ag>>

\* POST /tasks/{task_id}/dismiss
dismiss_task(w, task_id) ==
    /\ wk[w].pc = "idle"
    /\ LET i == FindTask(TASKS, task_id)
       IN  IF i = 0
           THEN /\ resp' = Response("dismiss", 404)
                /\ UNCHANGED TASKS
           ELSE /\ TASKS' = [TASKS EXCEPT ![i].status = "dismissed"]
                /\ resp' = Response("dismiss", 200)
    /\ UNCHANGED <<PROCESSED_IDS, IS_SCANNING, sc, wk, sent, markedRead, lastList, runs, verdict, calendar, inbox, ag>>

(***************************************************************************)
(* The server.                                                             *)
(***************************************************************************)
S_XY == <<"x","@","y",".","c","o","m">>

\* the patient contexts a list request can carry
Contexts ==
    [ patient_name   : {None, <<>>, S_JaneDoe},
      doctor_emails  : {None, S_DrEmail},
      doctor_names   : {None, S_Smith},
      contact_emails : {None, S_XY} ]

\* the task ids a request can name: those in the store and one that is not
TaskIds == 1..(Len(TASKS) + 1)

Init ==
    /\ TASKS = <<>>
    /\ PROCESSED_IDS = {}
    /\ IS_SCANNING = FALSE
    /\ sc = [s \in Scanners |-> IdleScan]
    /\ wk = [w \in Workers |-> IdleWork]
    /\ sent = <<>>
    /\ markedRead = {}
    /\ resp = NoResponse
    /\ lastList = NoList
    /\ runs = <<>>
    /\ verdict = NoVerdict
    /\ calendar = {}
    /\ inbox = [emails |-> <<>>, chats |-> <<>>]
    /\ ag = IdleAgent

\* the steps of the list operation and of the scans it starts on the pool
\* threads `pool`, with the batches the two fetches can return
ScanSteps(pool, ebatches, canRaise, tbatches, hist) ==
    \/ get_tasks(NoList.ctx, pool)
    \/ \E s \in pool : ScanEntry(s)
    \/ \E s \in pool : ScanSet(s)
    \/ \E s \in pool : ScanEmailList(s, ebatches, canRaise)
    \/ \E s \in pool : ScanEmailItem(s)
    \/ \E s \in pool : ScanEmailWork(s, hist)
    \/ \E s \in pool : ScanTelegram(s, tbatches)
    \/ \E s \in pool : ScanTelegramItem(s)
    \/ \E s \in pool : ScanClear(s, hist)

\* the steps of the accept and dismiss requests on the pool threads `pool`
LifeSteps(pool) ==
    \/ \E w \in pool, t \in TaskIds : AcceptStart(w, t)
    \/ \E w \in pool : AcceptExec(w)
    \/ \E w \in pool : AcceptMark(w)
    \/ \E w \in pool : AcceptSet(w)
    \/ \E w \in pool, t \in TaskIds : dismiss_task(w, t)

\* the whole server: concurrent scans and concurrent accept/dismiss requests
Next ==
    \/ ScanSteps(Scanners, EmailBatches, TRUE, TgBatches, FALSE)
    \/ LifeSteps(Workers)

Spec == Init /\ [][Next]_vars

\* list requests only: the scans they start run concurrently
ScanNext == ScanSteps(Scanners, EmailBatches, TRUE, TgBatches, FALSE)

ScanSpec == Init /\ [][ScanNext]_vars

\* scans run one after the other on sources that do not change: every
\* fetch returns the same unread batch and the same chat updates
SeqInit ==
    /\ TASKS = <<>>
    /\ PROCESSED_IDS = {}
    /\ IS_SCANNING = FALSE
    /\ sc = [s \in Scanners |-> IdleScan]
    /\ wk = [w \in Workers |-> IdleWork]
    /\ sent = <<>>
    /\ markedRead = {}
    /\ resp = NoResponse
    /\ lastList = NoList
    /\ runs = <<>>
    /\ verdict = NoVerdict
    /\ calendar = {}
    /\ inbox \in [emails : EmailBatches, chats : TgBatches]
    /\ ag = IdleAgent

SeqNext == ScanSteps({1}, {inbox.emails}, FALSE, {inbox.chats}, TRUE)

SeqSpec == SeqInit /\ [][SeqNext]_vars

\* accept and dismiss requests, with scans that run one after the other on
\* a mailbox of LifeEmails messages
LifeNext ==
    \/ ScanSteps({1}, LifeBatches, TRUE, TgBatches, FALSE)
    \/ LifeSteps(Workers)

LifeSpec == Init /\ [][LifeNext]_vars

\* scans run one after the other on a mailbox whose list call can fail and
\* a bot that returns chat updates of every kind
ChatUpdates == 2   \* chat updates the bot API can return in these runs

ChatBatches == {SortedSeq(S) : S \in SUBSET (1..ChatUpdates)}

ChatInit ==
    /\ TASKS = <<>>
    /\ PROCESSED_IDS = {}
    /\ IS_SCANNING = FALSE
    /\ sc = [s \in Scanners |-> IdleScan]
    /\ wk = [w \in Workers |-> IdleWork]
    /\ sent = <<>>
    /\ markedRead = {}
    /\ resp = NoResponse
    /\ lastList = NoList
    /\ runs = <<>>
    /\ verdict = NoVerdict
    /\ calendar = {}
    /\ inbox \in [emails : LifeBatches, chats : ChatBatches]
    /\ ag = IdleAgent

ChatNext == ScanSteps({1}, {inbox.emails}, TRUE, {inbox.chats}, TRUE)

ChatSpec == ChatInit /\ [][ChatNext]_vars

\* list requests with a patient context, each followed by its scan, on
\* sources that do not change
ListContexts ==
    { c \in Contexts : c.doctor_names = None /\ c.contact_emails = None /\ c.patient_name # <<>> }

ListNext ==
    \/ \E ctx \in ListContexts : get_tasks(ctx, {1})
    \/ ScanEntry(1)
    \/ ScanSet(1)
    \/ ScanEmailList(1, {inbox.emails}, FALSE)
    \/ ScanEmailItem(1)
    \/ ScanEmailWork(1, FALSE)
    \/ ScanTelegram(1, {inbox.chats})
    \/ ScanTelegramItem(1)
    \/ ScanClear(1, FALSE)

ListSpec == SeqInit /\ [][ListNext]_vars

(***************************************************************************)
(* The Relevance Filter on arbitrary stores: the store holds tasks of any  *)
(* type and status, the sources are down (the mailbox call raises, the bot *)
(* has no token), and list requests carry any patient context.             *)
(***************************************************************************)
MaxStore == 1   \* tasks in the generated stores of the filter runs

S_Refill == <<"R","e","f","i","l","l">>

S_JaneSender == <<"J","a","n","e"," ","D","o","e"," ","<","j","@","h",".","c","o","m",">">>

\* the original messages of email_reply tasks
SampleEmails ==
    { [id |-> MsgId(1), sender |-> S_DrSmith,    subject |-> S_Checkup, body |-> S_Hello],
      [id |-> MsgId(2), sender |-> S_Spam,       subject |-> S_Hello,   body |-> S_Hello],
      [id |-> MsgId(3), sender |-> S_Unrelated,  subject |-> S_ReJane,  body |-> S_Hello],
      [id |-> MsgId(4), sender |-> S_JaneSender, subject |-> S_Hello,   body |-> S_Hello] }

\* Task records as the store can hold them, before id and status are set
SampleTasks ==
    { [EmailTask(0, 0, e, [urgency |-> "medium"]) EXCEPT !.src = <<"none", 0>>] : e \in SampleEmails }
    \cup { TelegramTask(0, TgUpdateOf(1)) }
    \cup { [ id |-> 0, type |-> ty, title |-> S_Refill, description |-> S_Refill,
             urgency |-> "medium", status |-> "pending", payload |-> <<>>,
             created_at |-> ClassDefTime, src |-> <<"none", 0>> ]
           : ty \in {"prescription_refill", "health_alert", "appointment_reminder"} }
    \cup { [ id |-> 0, type |-> "appointment_scheduler", title |-> S_Refill, description |-> S_Refill,
             urgency |-> "medium", status |-> "pending", payload |-> [doctor |-> S_DrSmith],
             created_at |-> ClassDefTime, src |-> <<"none", 0>> ] }

\* the stores of n tasks, ids 1..n, all pending or with one task completed
\* or dismissed
StoresOfLen(n) ==
    { [i \in 1..n |-> [x[1][i] EXCEPT !.id = i,
                                      !.status = IF i = x[2] THEN x[3] ELSE "pending"]] :
        x \in [1..n -> SampleTasks] \X (0..n) \X {"completed", "dismissed"} }

\* three pending email_reply tasks: from a known doctor, from an unknown
\* sender, and from an unknown sender with the patient's name in the subject
ExampleStore ==
    LET e == [i \in 1..3 |-> CHOOSE m \in SampleEmails : m.id = MsgId(i)]
    IN  [i \in 1..3 |-> [EmailTask(i, i, e[i], [urgency |-> "medium"]) EXCEPT !.src = <<"none", 0>>]]

\* a drafted reply that names the patient and the doctor, whatever the
\* original email says
NamingDraft == [subject |-> S_ReJane, body |-> S_DrSmith]

\* two pending email_reply tasks for the same original email, with
\* different drafted replies
TwinStores ==
    { LET t == [EmailTask(1, 0, e, [urgency |-> "medium"]) EXCEPT !.src = <<"none", 0>>]
      IN  <<t, [t EXCEPT !.id = 2, !.payload.draft_reply = NamingDraft]>> : e \in SampleEmails }

FilterStores == UNION { StoresOfLen(n) : n \in 0..MaxStore } \cup {ExampleStore} \cup TwinStores

FilterInit ==
    /\ TASKS \in FilterStores
    /\ PROCESSED_IDS = {}
    /\ IS_SCANNING = FALSE
    /\ sc = [s \in Scanners |-> IdleScan]
    /\ wk = [w \in Workers |-> IdleWork]
    /\ sent = [i \in 1..Len(TASKS) |-> 0]
    /\ markedRead = {}
    /\ resp = NoResponse
    /\ lastList = NoList
    /\ runs = <<>>
    /\ verdict = NoVerdict
    /\ calendar = {}
    /\ inbox = [emails |-> <<>>, chats |-> <<>>]
    /\ ag = IdleAgent

FilterNext ==
    \/ \E ctx \in Contexts : get_tasks(ctx, {1})
    \/ ScanEntry(1)
    \/ ScanSet(1)
    \/ ScanEmailList(1, {}, TRUE)
    \/ ScanTelegram(1, {<<>>})
    \/ ScanTelegramItem(1)
    \/ ScanClear(1, FALSE)

FilterSpec == FilterInit /\ [][FilterNext]_vars


(***************************************************************************)
(* Properties.                                                             *)
(***************************************************************************)

\* C1: two scans never overlap: at no point are two invocations of
\* generate_tasks_from_sources both past the IS_SCANNING entry check and
\* before the final IS_SCANNING = False.
C1_NoOverlappingScans ==
    \A a, b \in Scanners : (InScan(a) /\ InScan(b)) => a = b

\* C2: the Task Store holds at most one Task for each source item (one
\* email message id, one chat update id).
C2_OneTaskPerSourceItem ==
    \A i, j \in 1..Len(TASKS) : TASKS[i].src = TASKS[j].src => i = j

\* the ledger keys of the items the sources hold
InboxKeys ==
    {MsgId(n) : n \in Range(inbox.emails)} \cup {TgKey(u) : u \in Range(inbox.chats)}

\* C3 as stated: of two scans run one after the other on the same email
\* batch and the same chat updates, the second appends zero Tasks, and the
\* ledger only grows.
C3_SecondRunAddsNothing ==
    Len(runs) = 2 =>
        /\ runs[2].size = runs[1].size
        /\ runs[1].ledger \subseteq runs[2].ledger

\* C3 amended: a scan that runs after another one appends no Task for an id
\* that was in the ledger when the earlier scan ended, and appends zero Tasks
\* if every fetched id was in the ledger by then; the ledger only grows.
C3_LaterRunSkipsEvaluatedIds ==
    /\ \A k \in 1..Len(runs) :
          /\ runs[k].ledger \subseteq PROCESSED_IDS
          /\ \A i \in (runs[k].size + 1)..Len(TASKS) : TASKS[i].src \notin runs[k].ledger
    /\ Len(runs) = 2 =>
          /\ runs[1].ledger \subseteq runs[2].ledger
          /\ InboxKeys \subseteq runs[1].ledger => runs[2].size = runs[1].size

\* two completed scans of a non-empty mailbox: the first made a Task and
\* evaluated every item, the second added nothing
C3_Witness ==
    /\ Len(runs) = 2
    /\ inbox.emails # <<>>
    /\ inbox.chats # <<>>
    /\ runs[1].size >= 2
    /\ InboxKeys \subseteq runs[1].ledger
    /\ runs[2].size = runs[1].size

\* C4: every Task enters the store pending, and the only status transitions
\* are pending -> completed and pending -> dismissed: a completed or
\* dismissed task never changes status again.
C4_StatusOnlyLeavesPending ==
    [][ /\ \A i \in (Len(TASKS) + 1)..Len(TASKS') : TASKS'[i].status = "pending"
        /\ \A i \in 1..Len(TASKS) :
              TASKS'[i].status # TASKS[i].status =>
                  /\ TASKS[i].status = "pending"
                  /\ TASKS'[i].status \in {"completed", "dismissed"} ]_vars

\* C5: accept_task called on a task that is already completed or dismissed
\* runs no executor: a call goes on from the lookup to the executor of the
\* task's type only when the task is pending at the call.
C5_NoExecutorOnFinishedTask ==
    [][ \A w \in Workers :
          (wk[w].pc = "idle" /\ wk'[w].pc = "exec") =>
              TASKS[wk'[w].idx].status = "pending" ]_vars

\* the step in which the send_email call of the accept request on thread w
\* raises: the executor of an email_reply task ends without a reply sent
SendRaises(w) ==
    /\ wk[w].pc = "exec"
    /\ TASKS[wk[w].idx].type = "email_reply"
    /\ wk'[w] # wk[w]
    /\ sent' = sent

\* C6: if the email send raises while accept_task runs on an email_reply
\* task, the call reports an error (HTTP 500), the task's status is not
\* advanced, and the originating message is not marked read; an accept of a
\* task in the store, also after such a failure, goes to the executor.
C6_SendFailureKeepsPending ==
    [][ \A w \in Workers :
          /\ SendRaises(w) =>
                /\ wk'[w].pc = "idle"
                /\ resp' = Response("accept", 500)
                /\ TASKS' = TASKS
                /\ markedRead' = markedRead
          /\ (wk[w].pc = "idle" /\ wk'[w].pc # "idle") =>
                /\ wk'[w].pc = "exec"
                /\ TASKS[wk'[w].idx].id = wk'[w].tid ]_vars

\* an accept of a pending email_reply task has failed in the send: no reply
\* was ever sent, nothing was marked read, the task is still pending
C6_Witness ==
    /\ resp.op = "accept"
    /\ resp.code = 500
    /\ markedRead = {}
    /\ \E i \in 1..Len(TASKS) : TASKS[i].type = "email_reply"
    /\ \A i \in 1..Len(TASKS) : TASKS[i].status = "pending" /\ sent[i] = 0

\* C7: an email_reply task is completed only if both sub-steps of its
\* executor succeeded: the reply was sent and the originating message was
\* marked read.
C7_CompletedOnlyIfSentAndMarkedRead ==
    \A i \in 1..Len(TASKS) :
        (TASKS[i].type = "email_reply" /\ TASKS[i].status = "completed") =>
            /\ sent[i] >= 1
            /\ TASKS[i].payload.email_id \in markedRead

\* C8: accept_task and dismiss_task with a task id that is not in the store
\* fail with HTTP 404, run no executor, and leave the tasks, the ledger and
\* the mailbox unchanged.
C8_UnknownIdIsNotFound ==
    [][ \A w \in Workers, t \in TaskIds :
          ( /\ \A i \in 1..Len(TASKS) : TASKS[i].id # t
            /\ AcceptStart(w, t) \/ dismiss_task(w, t) ) =>
                /\ resp'.code = 404
                /\ wk' = wk
                /\ UNCHANGED <<TASKS, PROCESSED_IDS, sent, markedRead>> ]_vars

\* a request for an id that is not in a non-empty store was answered with 404
C8_Witness ==
    /\ resp.op \in {"accept", "dismiss"}
    /\ resp.code = 404
    /\ Len(TASKS) >= 1
    /\ \A i \in 1..Len(TASKS) : TASKS[i].status = "pending" /\ sent[i] = 0
    /\ \A w \in Workers : wk[w].pc = "idle"

\* none of patient_name, doctor_emails, doctor_names was supplied
Unscoped(ctx) ==
    /\ ctx.patient_name \in {None, <<>>}
    /\ ctx.doctor_emails \in {None, <<>>}
    /\ ctx.doctor_names \in {None, <<>>}

\* C9: if none of patient_name, doctor_emails, doctor_names is supplied, the
\* list operation returns the empty list, whatever tasks are pending and
\* whatever contact_emails holds.
C9_NoContextListsNothing ==
    Unscoped(lastList.ctx) => lastList.out = <<>>

\* a list request with contact_emails only, on a store with a pending
\* email_reply task from that contact, returned nothing
C9_Witness ==
    /\ Unscoped(lastList.ctx)
    /\ lastList.ctx.contact_emails = S_XY
    /\ lastList.out = <<>>
    /\ \E i \in 1..Len(TASKS) :
          /\ TASKS[i].status = "pending"
          /\ TASKS[i].type = "email_reply"
          /\ TASKS[i].payload.original_email.sender = S_Unrelated

SameButDraft(a, b) ==
    /\ a.type = "email_reply"
    /\ b.type = "email_reply"
    /\ [a EXCEPT !.id = 0, !.payload.draft_reply = 0] = [b EXCEPT !.id = 0, !.payload.draft_reply = 0]

\* C11: the relevance decision never depends on the drafted reply: two
\* pending tasks that are identical except for payload.draft_reply are both
\* returned or both left out by the list operation, under every context.
C11_DraftDoesNotDecide ==
    \A i, j \in 1..Len(TASKS) :
        (IsPending(TASKS[i]) /\ IsPending(TASKS[j]) /\ SameButDraft(TASKS[i], TASKS[j])) =>
            (TASKS[i].id \in Range(lastList.out) <=> TASKS[j].id \in Range(lastList.out))

\* a list request with the patient's and the doctor's name, on two twin
\* tasks of which one draft names the patient: both were left out
C11_Witness ==
    /\ lastList.ctx.patient_name = S_JaneDoe
    /\ lastList.ctx.doctor_names = S_Smith
    /\ \E i, j \in 1..Len(TASKS) :
          /\ IsPending(TASKS[i]) /\ IsPending(TASKS[j])
          /\ SameButDraft(TASKS[i], TASKS[j])
          /\ TASKS[i].payload.draft_reply # TASKS[j].payload.draft_reply
          /\ Contains(Lower(TASKS[j].payload.draft_reply.subject), Lower(S_JaneDoe))
          /\ TASKS[i].id \notin Range(lastList.out)
          /\ TASKS[j].id \notin Range(lastList.out)

\* C12: the list operation returns only tasks whose status is pending: a
\* completed or dismissed task of the store is in no response, under any
\* patient context.
C12_OnlyPendingListed ==
    \A k \in 1..Len(lastList.out) :
        \E i \in 1..Len(TASKS) :
            TASKS[i].id = lastList.out[k] /\ TASKS[i].status = "pending"

\* a list request whose context matches a dismissed task of the store: the
\* task is still in the store and was not returned
C12_Witness ==
    /\ ~ NoPatientContext(lastList.ctx)
    /\ \E i \in 1..Len(TASKS) :
          /\ TASKS[i].status = "dismissed"
          /\ is_relevant(TASKS[i], lastList.ctx)
          /\ TASKS[i].id \notin Range(lastList.out)

\* an email the light filter is to drop: an automated sender or a noise
\* phrase in subject + body
IsNoise(email) == IsAutomatedSender(email) \/ IsSpam(email)

\* the ledger keys of the messages of the mailbox that are noise
NoiseKeys == {MsgId(n) : n \in {m \in 1..NumEmails : IsNoise(EmailOf(m))}}

\* C13: an email from an automated sender, or with a noise phrase in its
\* subject or body, never produces a Task (no step appends a Task made from
\* one), and the scan that evaluates it records its id in the ledger.
C13_NoiseNeverMakesTask ==
    [][ /\ \A i \in (Len(TASKS) + 1)..Len(TASKS') : TASKS'[i].src \notin NoiseKeys
        /\ \A s \in Scanners :
              (sc[s].pc = "work" /\ sc'[s] # sc[s] /\ MsgId(sc[s].cur) \in NoiseKeys) =>
                  /\ TASKS' = TASKS
                  /\ MsgId(sc[s].cur) \in PROCESSED_IDS' ]_vars

\* a completed scan of a mailbox that holds the newsletter of
\* noreply@example.com: its id is in the ledger and no Task was made from it
C13_Witness ==
    /\ Len(runs) >= 1
    /\ \E n \in Range(inbox.emails) :
          /\ EmailOf(n).sender = S_NoReply
          /\ MsgId(n) \in PROCESSED_IDS
          /\ \A i \in 1..Len(TASKS) : TASKS[i].src # MsgId(n)

\* C14: for every chat update the poll returns whose key is not in the
\* ledger, the scan creates a pending telegram_reply Task of urgency medium
\* and records the key: after a completed scan every update of the poll is
\* in the ledger and has its Task.
C14_EveryChatUpdateBecomesTask ==
    Len(runs) >= 1 =>
        \A u \in Range(inbox.chats) :
            /\ TgKey(u) \in PROCESSED_IDS
            /\ \E i \in 1..Len(TASKS) :
                  /\ TASKS[i].src = TgKey(u)
                  /\ TASKS[i].type = "telegram_reply"
                  /\ TASKS[i].urgency = "medium"

\* C15: generate_tasks_from_sources never propagates an exception (it
\* always returns through IS_SCANNING = False), and a failure of the email
\* source does not prevent the chat poll and the Tasks of its updates: every
\* way out of the email part leads to the poll, and a polled message that is
\* not in the ledger becomes a Task.
C15_EmailFailureDoesNotStopChat ==
    [][ \A s \in Scanners :
          /\ (InScan(s) /\ sc'[s].pc = "idle") =>
                (sc[s].pc = "clear" /\ IS_SCANNING' = FALSE)
          /\ (sc[s].pc \in {"list", "item", "work"} /\ sc'[s] # sc[s]) =>
                sc'[s].pc \in {"item", "work", "tg"}
          /\ (sc[s].pc = "tg" /\ sc'[s] # sc[s]) =>
                (sc'[s].pc = "tgitem" /\ sc'[s].q = inbox.chats)
          /\ ( /\ sc[s].pc = "tgitem"
               /\ sc[s].q # <<>>
               /\ sc'[s] # sc[s]
               /\ TgKey(Head(sc[s].q)) \notin PROCESSED_IDS
               /\ "message" \in DOMAIN TgUpdateOf(Head(sc[s].q))
               /\ "from" \in DOMAIN TgUpdateOf(Head(sc[s].q)).message ) =>
                  /\ Len(TASKS') = Len(TASKS) + 1
                  /\ TASKS'[Len(TASKS')].src = TgKey(Head(sc[s].q)) ]_vars

\* a completed scan in which the email source failed (the unread message
\* was never evaluated) and the chat message of the poll became a Task
C15_Witness ==
    /\ Len(runs) = 1
    /\ IS_SCANNING = FALSE
    /\ inbox.emails # <<>>
    /\ \A n \in Range(inbox.emails) : MsgId(n) \notin runs[1].ledger
    /\ \E i \in 1..Len(TASKS) : TASKS[i].type = "telegram_reply" /\ TASKS[i].src \in runs[1].ledger

\* C16: an exception raised while one item of a batch is processed skips
\* only that item: whatever happens to the item at the head of the batch,
\* the scan goes on with the items after it.
C16_ExceptionSkipsOnlyThatItem ==
    [][ \A s \in Scanners :
          (sc[s].pc \in {"item", "tgitem"} /\ sc[s].q # <<>> /\ sc'[s] # sc[s]) =>
              sc'[s].q = Tail(sc[s].q) ]_vars

\* the step of a list call: its scan is handed to a pool thread
ListStep == \E s \in Scanners : sc[s].pc = "idle" /\ sc'[s].pc = "entry"

\* C17: the response of a list call holds only tasks that were in the store
\* before the scan attached to that call appended anything: the call itself
\* appends nothing and answers from the store as it is, and what is appended
\* afterwards does not change the response.
C17_ResponsePrecedesOwnScan ==
    [][ /\ ListStep =>
              /\ TASKS' = TASKS
              /\ Range(lastList'.out) \subseteq {TASKS[i].id : i \in 1..Len(TASKS)}
        /\ ~ ListStep => lastList' = lastList ]_vars

\* the scan attached to the last list call has appended a pending task that
\* matches the call's patient context, and the call's response does not
\* hold it
C17_Witness ==
    /\ InScan(1)
    /\ ~ NoPatientContext(lastList.ctx)
    /\ \E i \in 1..Len(TASKS) :
          /\ IsPending(TASKS[i])
          /\ is_relevant(TASKS[i], lastList.ctx)
          /\ TASKS[i].id \notin Range(lastList.out)

\* the three rules of C18 for an email_reply task: (a) the sender's bare
\* address is a known doctor/contact email
RuleSenderEmail(task, ctx) ==
    SenderEmail(Lower(task.payload.original_email.sender)) \in KnownEmails(ctx)

\* (b) a known doctor name of length >= 3 is in the sender field or subject
RuleDoctorName(task, ctx) ==
    \E name \in ListItems(ctx.doctor_names) :
        /\ Len(name) >= 3
        /\ \/ Contains(Lower(task.payload.original_email.sender), name)
           \/ Contains(Lower(task.payload.original_email.subject), name)

\* (c) the patient name, of length >= 3, is in the subject or the body
RulePatientName(task, ctx) ==
    /\ Truthy(ctx.patient_name)
    /\ Len(Lower(Strip(ctx.patient_name))) >= 3
    /\ \/ Contains(Lower(task.payload.original_email.subject), Lower(Strip(ctx.patient_name)))
       \/ Contains(Lower(task.payload.original_email.body), Lower(Strip(ctx.patient_name)))

\* C18: under a supplied patient context, a pending email_reply task is
\* returned if and only if it matches rule (a), (b) or (c).
C18_EmailRulesDecide ==
    ~ Unscoped(lastList.ctx) =>
        \A i \in 1..Len(TASKS) :
            (IsPending(TASKS[i]) /\ TASKS[i].type = "email_reply") =>
                ( TASKS[i].id \in Range(lastList.out)
                    <=> \/ RuleSenderEmail(TASKS[i], lastList.ctx)
                        \/ RuleDoctorName(TASKS[i], lastList.ctx)
                        \/ RulePatientName(TASKS[i], lastList.ctx) )

\* C19: a scan invocation that observes IS_SCANNING set returns at once and
\* changes nothing, so of the scan triggers issued while a scan is in flight
\* only one fetches: a scan never fetches the unread batch while another
\* scan is past the entry check.
C19_GuardedScanFetchesOnce ==
    [][ \A s \in Scanners :
          /\ (sc[s].pc = "entry" /\ IS_SCANNING /\ sc'[s] # sc[s]) =>
                /\ sc'[s] = IdleScan
                /\ UNCHANGED <<TASKS, PROCESSED_IDS, IS_SCANNING>>
          /\ (sc[s].pc = "list" /\ sc'[s] # sc[s]) =>
                \A o \in Scanners \ {s} : ~ InScan(o) ]_vars

\* the Tasks made from the email the classifier last answered for
MadeFromLast == {i \in 1..Len(TASKS) : TASKS[i].src = verdict.key}

\* the classifier's answers leave nothing to do: no reply required, low
\* urgency, no scheduling proposal found
NothingToDo ==
    /\ ~ verdict.analysis.requires_reply
    /\ verdict.analysis.urgency = "low"
    /\ ~ Get(verdict.sched_info, "has_proposal", FALSE)

\* C20: an email that passes the light filter is marked processed, and it
\* yields no Task if and only if requires_reply is false, urgency is low and
\* no scheduling proposal was found; otherwise exactly one pending
\* email_reply Task is made for it.
C20_SkipIffNothingToDo ==
    verdict.key # NoVerdict.key =>
        /\ verdict.key \in PROCESSED_IDS
        /\ NothingToDo => MadeFromLast = {}
        /\ ~ NothingToDo =>
              /\ Cardinality(MadeFromLast) = 1
              /\ \A i \in MadeFromLast :
                    TASKS[i].type = "email_reply" /\ TASKS[i].status = "pending"

\* an email with no reply required and low urgency, for which a scheduling
\* proposal was found: its Task was made
C20_Witness ==
    /\ verdict.key # NoVerdict.key
    /\ ~ verdict.analysis.requires_reply
    /\ verdict.analysis.urgency = "low"
    /\ Get(verdict.sched_info, "has_proposal", FALSE)
    /\ Cardinality(MadeFromLast) = 1
    /\ verdict.key \in PROCESSED_IDS

\* C21: for a proposal with a concrete date and time, the availability
\* context given to the drafting directs a confirm if the calendar reports
\* the interval free and a decline if it reports it busy; if the calendar
\* check fails the context is empty and the Task is still drafted; the
\* Task's urgency is the classifier's, never the context.
C21_ContextFollowsCalendar ==
    (verdict.key # NoVerdict.key /\ HasConcreteProposal(verdict.sched_info)) =>
        /\ verdict.cal = "free" => verdict.context = "confirm"
        /\ verdict.cal = "busy" => verdict.context = "decline"
        /\ verdict.cal = "error" => verdict.context = ""
        /\ Cardinality({i \in 1..Len(TASKS) : TASKS[i].src = verdict.key}) = 1
        /\ \A i \in 1..Len(TASKS) :
              TASKS[i].src = verdict.key =>
                  /\ TASKS[i].urgency = verdict.analysis.urgency
                  /\ TASKS[i].urgency \notin {"confirm", "decline"}

\* the calendar reported the proposed interval busy: the drafting was given
\* the decline context and the Task was made
C21_Witness ==
    /\ verdict.key # NoVerdict.key
    /\ HasConcreteProposal(verdict.sched_info)
    /\ verdict.cal = "busy"
    /\ verdict.context = "decline"
    /\ \E i \in 1..Len(TASKS) : TASKS[i].src = verdict.key /\ TASKS[i].type = "email_reply"

(***************************************************************************)
(* Accept and dismiss requests on a store that holds a task of each type   *)
(* with an executor branch: no scan runs.                                  *)
(***************************************************************************)
\* three pending tasks: an appointment_scheduler task, a telegram_reply task
\* and an email_reply task
ApptStore ==
    << [ id |-> 1, type |-> "appointment_scheduler", title |-> S_Refill, description |-> S_Refill,
         urgency |-> "medium", status |-> "pending", payload |-> [doctor |-> S_DrSmith],
         created_at |-> ClassDefTime, src |-> <<"none", 0>> ],
       [TelegramTask(2, TgUpdateOf(1)) EXCEPT !.src = <<"none", 0>>],
       [EmailTask(3, 1, EmailOf(1), [urgency |-> "medium"]) EXCEPT !.src = <<"none", 0>>] >>

ApptInit ==
    /\ TASKS = ApptStore
    /\ PROCESSED_IDS = {}
    /\ IS_SCANNING = FALSE
    /\ sc = [s \in Scanners |-> IdleScan]
    /\ wk = [w \in Workers |-> IdleWork]
    /\ sent = [i \in 1..Len(ApptStore) |-> 0]
    /\ markedRead = {}
    /\ resp = NoResponse
    /\ lastList = NoList
    /\ runs = <<>>
    /\ verdict = NoVerdict
    /\ calendar = {}
    /\ inbox = [emails |-> <<>>, chats |-> <<>>]
    /\ ag = IdleAgent

ApptNext == LifeSteps(Workers)

ApptSpec == ApptInit /\ [][ApptNext]_vars

\* C22: accept_task on an appointment_scheduler task ends with the task
\* completed and a success response also when the calendar adapter fails:
\* whatever the calendar call does, the request goes on, without a response
\* yet, to the status write, which completes the task and answers 200.
C22_CalendarFailureStillCompletes ==
    [][ \A w \in Workers :
          /\ ( /\ wk[w].pc = "exec"
               /\ TASKS[wk[w].idx].type = "appointment_scheduler"
               /\ wk'[w] # wk[w] ) =>
                  /\ wk'[w] = [wk[w] EXCEPT !.pc = "set"]
                  /\ resp' = resp
                  /\ TASKS' = TASKS
          /\ ( /\ wk[w].pc = "set"
               /\ TASKS[wk[w].idx].type = "appointment_scheduler"
               /\ wk'[w] # wk[w] ) =>
                  /\ TASKS'[wk[w].idx].status = "completed"
                  /\ resp' = Response("accept", 200) ]_vars

\* the appointment_scheduler task was accepted, no calendar event was
\* created for it, and the task is completed with a success response
C22_Witness ==
    /\ \E i \in 1..Len(TASKS) :
          /\ TASKS[i].type = "appointment_scheduler"
          /\ TASKS[i].status = "completed"
          /\ \A j \in 1..Len(TASKS) : j # i => TASKS[j].status = "pending" /\ sent[j] = 0
    /\ calendar = {}
    /\ resp = Response("accept", 200)

\* C23: dismiss_task on an existing task always succeeds, sets that task's
\* status to dismissed and calls no adapter; accept_task on a telegram_reply
\* task calls no adapter either and only moves the status to completed.
C23_NoAdapterOnDismissOrChatAccept ==
    [][ /\ \A w \in Workers, t \in TaskIds :
              (FindTask(TASKS, t) # 0 /\ dismiss_task(w, t)) =>
                  /\ TASKS' = [TASKS EXCEPT ![FindTask(TASKS, t)].status = "dismissed"]
                  /\ resp' = Response("dismiss", 200)
                  /\ UNCHANGED <<sent, markedRead, calendar>>
        /\ \A w \in Workers :
              ( /\ wk[w].pc # "idle"
                /\ TASKS[wk[w].idx].type = "telegram_reply"
                /\ wk'[w] # wk[w] ) =>
                  /\ UNCHANGED <<sent, markedRead, calendar>>
                  /\ \/ /\ wk[w].pc = "exec"
                        /\ wk'[w].pc = "set"
                        /\ UNCHANGED <<TASKS, resp>>
                     \/ /\ wk[w].pc = "set"
                        /\ wk'[w].pc = "idle"
                        /\ TASKS' = [TASKS EXCEPT ![wk[w].idx].status = "completed"]
                        /\ resp' = Response("accept", 200) ]_vars

\* the telegram_reply task was accepted and another task dismissed, and no
\* adapter was called at all
C23_Witness ==
    /\ \E i, j \in 1..Len(TASKS) :
          /\ TASKS[i].type = "telegram_reply"
          /\ TASKS[i].status = "completed"
          /\ TASKS[j].status = "dismissed"
    /\ \A i \in 1..Len(TASKS) : sent[i] = 0
    /\ markedRead = {}
    /\ calendar = {}
    /\ resp = Response("dismiss", 200)

(***************************************************************************)
(* Two requests at a time: accept_task and dismiss_task are plain defs, so *)
(* the server runs each request on a pool thread, next to a running scan.  *)
(***************************************************************************)
\* the pool threads of the two concurrent requests
Callers == {1, 2}

RaceInit ==
    /\ TASKS = <<>>
    /\ PROCESSED_IDS = {}
    /\ IS_SCANNING = FALSE
    /\ sc = [s \in Scanners |-> IdleScan]
    /\ wk = [w \in Callers |-> IdleWork]
    /\ sent = <<>>
    /\ markedRead = {}
    /\ resp = NoResponse
    /\ lastList = NoList
    /\ runs = <<>>
    /\ verdict = NoVerdict
    /\ calendar = {}
    /\ inbox = [emails |-> <<>>, chats |-> <<>>]
    /\ ag = IdleAgent

RaceNext ==
    \/ ScanSteps({1}, LifeBatches, TRUE, TgBatches, FALSE)
    \/ LifeSteps(Callers)

RaceSpec == RaceInit /\ [][RaceNext]_vars

\* C24: two concurrent accept_task calls on the same pending email_reply
\* task are not serialised: while one call is anywhere between its lookup
\* and its status write, a second call on the same id is able to enter the
\* email executor too (as long as the send cap of the model allows one more
\* send), so the reply can be sent twice before the task is completed.
C24_AcceptsNotSerialised ==
    \A w, v \in Callers :
        ( /\ w # v
          /\ wk[w].pc # "idle"
          /\ wk[v].pc = "idle"
          /\ TASKS[wk[w].idx].type = "email_reply"
          /\ TASKS[wk[w].idx].status = "pending"
          /\ sent[wk[w].idx] + Sending(wk[w].idx) < MaxSends ) =>
              ENABLED ( /\ AcceptStart(v, wk[w].tid)
                        /\ wk'[v] = [pc |-> "exec", tid |-> wk[w].tid, idx |-> wk[w].idx] )

\* both calls have sent the reply of the same email_reply task and the task
\* is still pending
C24_Witness ==
    /\ wk[1].pc \in {"mark", "set"}
    /\ wk[2].pc \in {"mark", "set"}
    /\ wk[1].idx = wk[2].idx
    /\ TASKS[wk[1].idx].type = "email_reply"
    /\ TASKS[wk[1].idx].status = "pending"
    /\ sent[wk[1].idx] = 2

\* the status of TASKS[i] is written by a call that targets TASKS[i]: the
\* status write of an accept that looked up this task's id, or a dismiss
WrittenByOwnCall(i) ==
    \/ /\ TASKS'[i] = [TASKS[i] EXCEPT !.status = "completed"]
       /\ \E w \in Callers :
             /\ wk[w] = [pc |-> "set", tid |-> TASKS[i].id, idx |-> i]
             /\ wk'[w] = IdleWork
    \/ /\ TASKS'[i] = [TASKS[i] EXCEPT !.status = "dismissed"]
       /\ wk' = wk
       /\ resp' = Response("dismiss", 200)

\* C25: concurrent accept_task/dismiss_task calls on different ids, also
\* while a scan appends, are safe: a step changes an existing task only by
\* the status write of a call on that very task, the status write of an
\* accept completes its own task and leaves every other task as it is, and
\* no step removes a task or a ledger entry.
C25_CallsOnDifferentIdsAreSafe ==
    [][ /\ Len(TASKS') >= Len(TASKS)
        /\ PROCESSED_IDS \subseteq PROCESSED_IDS'
        /\ \A i \in 1..Len(TASKS) : TASKS'[i] = TASKS[i] \/ WrittenByOwnCall(i)
        /\ \A w \in Callers :
              (wk[w].pc = "set" /\ wk'[w] # wk[w]) =>
                  TASKS' = [TASKS EXCEPT ![wk[w].idx].status = "completed"] ]_vars

\* the two calls are in flight on two different tasks, each about to write
\* its task's status, while the scan that appended a task is still running
C25_Witness ==
    /\ wk[1].pc = "set"
    /\ wk[2].pc = "set"
    /\ wk[1].idx # wk[2].idx
    /\ IS_SCANNING
    /\ sc[1].pc \notin {"idle", "entry", "set", "list"}

\* the position in the store of the task with this id
PosOf(id) == CHOOSE i \in 1..Len(TASKS) : TASKS[i].id = id

\* C26: computing the filtered listing has no effect on state and its
\* result is a function of the pending tasks and the patient context only:
\* the list step changes no task, no ledger entry and no adapter effect; its
\* result is the one computed from the pending tasks alone; it lists them in
\* store order; and a second call with the same context on the same store
\* returns the same list.
C26_ListingIsPure ==
    [][ ListStep =>
          /\ UNCHANGED <<TASKS, PROCESSED_IDS, sent, markedRead, calendar>>
          /\ lastList'.out = IdsOf(ListResult(SelectSeq(TASKS, IsPending), lastList'.ctx))
          /\ \A k, l \in 1..Len(lastList'.out) :
                k < l => PosOf(lastList'.out[k]) < PosOf(lastList'.out[l])
          /\ (lastList # NoList /\ lastList'.ctx = lastList.ctx) =>
                lastList'.out = lastList.out ]_vars

\* a list call with a patient context returned, in store order, two of the
\* three pending tasks of the store, and nothing in the store has changed
C26_Witness ==
    /\ TASKS = ExampleStore
    /\ ~ NoPatientContext(lastList.ctx)
    /\ lastList.out = <<1, 3>>
    /\ PROCESSED_IDS = {}
    /\ \A i \in 1..Len(TASKS) : sent[i] = 0

\* task i was in the store when some scan ended and task j was not: the two
\* were created by different scans, the second one at a later clock time
MadeByDifferentScans(i, j) ==
    \E k \in 1..Len(runs) : i <= runs[k].size /\ runs[k].size < j

\* C27: created_at of each Task is the time at which the Task was created:
\* two tasks created by scans that ran at different clock times carry
\* different created_at values, rather than one value shared by all tasks.
C27_CreatedAtIsCreationTime ==
    \A i, j \in 1..Len(TASKS) :
        MadeByDifferentScans(i, j) => TASKS[i].created_at # TASKS[j].created_at

\* the store after the step is the store before it, but for the status of
\* the task at position x
OnlyStatusOf(x) ==
    /\ Len(TASKS') = Len(TASKS)
    /\ \A i \in 1..Len(TASKS) :
          /\ i # x => TASKS'[i] = TASKS[i]
          /\ TASKS'[i] = [TASKS[i] EXCEPT !.status = TASKS'[i].status]

\* C28: accept_task and dismiss_task on task id X change nothing in the
\* store except the status of task X: every step of such a call leaves the
\* other tasks, every other field of X, the number of tasks and the ledger
\* as they are; no step of the server removes a task or changes an id, and
\* no id is shared by two tasks.
C28_CallsChangeOnlyOwnStatus ==
    [][ /\ \A w \in Callers :
              /\ wk'[w] # wk[w] =>
                    /\ PROCESSED_IDS' = PROCESSED_IDS
                    /\ OnlyStatusOf(IF wk[w].pc = "idle" THEN wk'[w].idx ELSE wk[w].idx)
                    /\ wk[w].pc # "idle" => TASKS[wk[w].idx].id = wk[w].tid
              /\ \A t \in TaskIds :
                    dismiss_task(w, t) =>
                        /\ PROCESSED_IDS' = PROCESSED_IDS
                        /\ OnlyStatusOf(FindTask(TASKS, t))
        /\ Len(TASKS') >= Len(TASKS)
        /\ \A i \in 1..Len(TASKS) : TASKS'[i].id = TASKS[i].id
        /\ \A i, j \in 1..Len(TASKS') : i # j => TASKS'[i].id # TASKS'[j].id ]_vars

\* one task was completed by an accept and the other dismissed, in a store
\* of two tasks that differ from two freshly created ones in nothing but
\* the status
C28_Witness ==
    /\ Len(TASKS) = 2
    /\ TASKS[1].status = "completed"
    /\ TASKS[2].status = "dismissed"
    /\ TASKS[1].id = 1
    /\ TASKS[2].id = 2
    /\ sent[1] + sent[2] = 1
    /\ resp = Response("dismiss", 200)

(***************************************************************************)
(* Scans whose sources fail: the mailbox call can raise, and the poll can  *)
(* return a message without a 'from' field (a KeyError in the chat loop).  *)
(* A scan handed to the pool runs on: its thread is scheduled until the    *)
(* function returns.                                                       *)
(***************************************************************************)
\* a poll whose only update is a message without a 'from' field
FromlessPoll == <<3>>

FlagInit ==
    /\ TASKS = <<>>
    /\ PROCESSED_IDS = {}
    /\ IS_SCANNING = FALSE
    /\ sc = [s \in Scanners |-> IdleScan]
    /\ wk = [w \in Workers |-> IdleWork]
    /\ sent = <<>>
    /\ markedRead = {}
    /\ resp = NoResponse
    /\ lastList = NoList
    /\ runs = <<>>
    /\ verdict = NoVerdict
    /\ calendar = {}
    /\ inbox \in [emails : LifeBatches, chats : ChatBatches \cup {FromlessPoll}]
    /\ ag = IdleAgent

\* the steps of a scan that was handed to the pool
FlagScanRun ==
    \/ ScanEntry(1)
    \/ ScanSet(1)
    \/ ScanEmailList(1, {inbox.emails}, TRUE)
    \/ ScanEmailItem(1)
    \/ ScanEmailWork(1, TRUE)
    \/ ScanTelegram(1, {inbox.chats})
    \/ ScanTelegramItem(1)
    \/ ScanClear(1, TRUE)

FlagNext ==
    \/ get_tasks(NoList.ctx, {1})
    \/ FlagScanRun

FlagSpec == FlagInit /\ [][FlagNext]_vars /\ WF_vars(FlagScanRun)

\* a scan is between its IS_SCANNING = True and its IS_SCANNING = False
HoldsFlag(s) == sc[s].pc \notin {"idle", "entry", "set"}

\* C29: every scan that sets IS_SCANNING eventually clears it, also when the
\* email source, the chat source or both fail: IS_SCANNING is never set
\* while no scan is running (so a trigger that arrives after a scan has
\* finished finds the flag clear), and a set flag is always cleared later.
C29_FlagAlwaysCleared ==
    /\ []( IS_SCANNING => \E s \in Scanners : HoldsFlag(s) )
    /\ ( IS_SCANNING ~> ~ IS_SCANNING )

\* a scan has finished with the flag clear although neither source gave
\* anything: the unread email was never evaluated and the chat loop raised
\* on the message without a 'from' field
C29_Witness ==
    /\ Len(runs) >= 1
    /\ ~ IS_SCANNING
    /\ sc[1].pc = "idle"
    /\ inbox.emails # <<>>
    /\ inbox.chats = FromlessPoll
    /\ PROCESSED_IDS = {}
    /\ TASKS = <<>>

(***************************************************************************)
(* run_agent: the tool-calling loop of the caregiver agent.                *)
(***************************************************************************)
MaxIterations == 3   \* the largest max_iterations a run is started with

\* the methods of CaregiverAgent that are declared as tools
AgentTools == {"send_email", "send_telegram_message", "book_google_calendar_event", "call_tool_ext"}

\* the function calls the model can answer with: a tool that returns, a tool
\* that raises, a name that is no attribute of the agent, and a call whose
\* arguments cannot be passed on (an argument named tool_name)
FunctionCalls ==
    { [name |-> "send_telegram_message", raises |-> FALSE, args |-> "ok"],
      [name |-> "send_email",            raises |-> TRUE,  args |-> "ok"],
      [name |-> "no_such_tool",          raises |-> FALSE, args |-> "ok"],
      [name |-> "call_tool_ext",         raises |-> FALSE, args |-> "clash"] }

\* a call_function that lets the failure out instead of returning a string
call_function_propagating(tool_name, raises) ==
    IF tool_name \notin AgentTools THEN [kind |-> "raise", value |-> "AttributeError"]
    ELSE IF raises THEN [kind |-> "raise", value |-> "Exception"]
    ELSE [kind |-> "return", value |-> "ok"]

\* CaregiverAgent.call_function: always a string
call_function(tool_name, raises) ==
    IF tool_name \notin AgentTools THEN [kind |-> "return", value |-> "Unknown tool"]
    ELSE IF raises THEN [kind |-> "return", value |-> "Tool execution error"]
    ELSE [kind |-> "return", value |-> "ok"]

Returns(response, success) ==
    ag' = [ag EXCEPT !.pc = "done",
                     !.ret = [response |-> response, actions_taken |-> ag.actions_taken,
                              success |-> success]]

\* a call of run_agent, up to the loop; without an API key it returns at once
AgentStart(max_iterations, has_key) ==
    /\ ag.pc \in {"idle", "done"}
    /\ ag' = IF has_key
             THEN [pc |-> "loop", max_iterations |-> max_iterations, i |-> 0, calls |-> 0,
                   contents |-> <<[role |-> "user", part |-> "prompt"]>>,
                   actions_taken |-> <<>>, ret |-> NoReturn]
             ELSE [pc |-> "done", max_iterations |-> max_iterations, i |-> 0, calls |-> 0,
                   contents |-> <<>>, actions_taken |-> <<>>,
                   ret |-> [response |-> "no API key", actions_taken |-> <<>>, success |-> FALSE]]
    /\ UNCHANGED <<TASKS, PROCESSED_IDS, IS_SCANNING, sc, wk, sent, markedRead, resp, lastList, runs, verdict, calendar, inbox>>

\* one pass of `for i in range(max_iterations)`: the model call and what
\* follows from its answer
AgentIterate ==
    /\ ag.pc = "loop"
    /\ ag.i < ag.max_iterations
    /\ LET called == [ag EXCEPT !.calls = @ + 1]
       IN  \/ \* generate_content raises, or the answer has no parts
              ag' = [called EXCEPT !.pc = "done",
                                   !.ret = [response |-> "error", actions_taken |-> ag.actions_taken,
                                            success |-> FALSE]]
           \/ \* no candidates
              ag' = [called EXCEPT !.pc = "done",
                                   !.ret = [response |-> "no response", actions_taken |-> ag.actions_taken,
                                            success |-> FALSE]]
           \/ \* the model answers with text
              ag' = [called EXCEPT !.pc = "done",
                                   !.ret = [response |-> "text", actions_taken |-> ag.actions_taken,
                                            success |-> TRUE]]
           \/ \E fc \in FunctionCalls :
                LET answered == Append(ag.contents, [role |-> "model", part |-> fc.name])
                    result   == call_function(fc.name, fc.raises)
                IN  IF fc.args = "clash" \/ result.kind = "raise"
                    THEN \* the exception reaches the handler of run_agent
                         ag' = [called EXCEPT !.pc = "done",
                                              !.contents = answered,
                                              !.ret = [response |-> "error",
                                                       actions_taken |-> ag.actions_taken,
                                                       success |-> FALSE]]
                    ELSE ag' = [called EXCEPT
                                  !.i = @ + 1,
                                  !.actions_taken = Append(@, [tool |-> fc.name, result |-> result.value]),
                                  !.contents = Append(answered, [role |-> "user", part |-> result.value])]
    /\ UNCHANGED <<TASKS, PROCESSED_IDS, IS_SCANNING, sc, wk, sent, markedRead, resp, lastList, runs, verdict, calendar, inbox>>

\* the loop ran max_iterations times without a final text
AgentExhaust ==
    /\ ag.pc = "loop"
    /\ ag.i = ag.max_iterations
    /\ Returns("maximum iterations", FALSE)
    /\ UNCHANGED <<TASKS, PROCESSED_IDS, IS_SCANNING, sc, wk, sent, markedRead, resp, lastList, runs, verdict, calendar, inbox>>

AgentInit ==
    /\ TASKS = <<>>
    /\ PROCESSED_IDS = {}
    /\ IS_SCANNING = FALSE
    /\ sc = [s \in Scanners |-> IdleScan]
    /\ wk = [w \in Workers |-> IdleWork]
    /\ sent = <<>>
    /\ markedRead = {}
    /\ resp = NoResponse
    /\ lastList = NoList
    /\ runs = <<>>
    /\ verdict = NoVerdict
    /\ calendar = {}
    /\ inbox = [emails |-> <<>>, chats |-> <<>>]
    /\ ag = IdleAgent

\* the steps of a started run: the coroutine is resumed until it returns
AgentRun == AgentIterate \/ AgentExhaust

AgentNext ==
    \/ \E m \in 0..MaxIterations, k \in BOOLEAN : AgentStart(m, k)
    \/ AgentIterate
    \/ AgentExhaust

AgentSpec == AgentInit /\ [][AgentNext]_vars /\ WF_vars(AgentRun)

\* the tool calls the conversation shows as executed (a model turn followed
\* by its function response), in order
RECURSIVE ExecutedIn(_)
ExecutedIn(contents) ==
    IF Len(contents) < 2 THEN <<>>
    ELSE IF contents[1].role = "model" /\ contents[2].role = "user"
    THEN <<[tool |-> contents[1].part, result |-> contents[2].part]>> \o ExecutedIn(Tail(Tail(contents)))
    ELSE ExecutedIn(Tail(contents))

\* C30: run_agent always terminates: it makes at most max_iterations model
\* calls and tool executions and then returns success = false unless the
\* model gave a final text; a call of an unknown tool or of a tool that
\* raises becomes a result string that is fed back to the model, and the
\* loop goes on; actions_taken lists the executed calls in execution order.
C30_AgentTerminates ==
    /\ [][ /\ ag'.calls <= ag'.max_iterations
           /\ Len(ag'.actions_taken) <= ag'.calls
           /\ ag'.actions_taken = ExecutedIn(ag'.contents)
           /\ ag'.pc = "done" =>
                 /\ ag'.ret.actions_taken = ag'.actions_taken
                 /\ ag'.ret.success <=> ag'.ret.response = "text"
           /\ \A fc \in FunctionCalls :
                 ( /\ ag.pc = "loop"
                   /\ ag'.contents # ag.contents
                   /\ ag'.contents[Len(ag.contents) + 1].part = fc.name
                   /\ fc.args = "ok"
                   /\ fc.name \notin AgentTools \/ fc.raises ) =>
                     /\ ag'.pc = "loop"
                     /\ Len(ag'.contents) = Len(ag.contents) + 2
                     /\ ag'.contents[Len(ag'.contents)] =
                           [role |-> "user",
                            part |-> IF fc.name \notin AgentTools THEN "Unknown tool"
                                     ELSE "Tool execution error"] ]_vars
    /\ ( ag.pc = "loop" ~> ag.pc = "done" )

\* a run that called an unknown tool and then a tool that raised, went on
\* to its last iteration and returned without success, both calls listed
C30_Witness ==
    /\ ag.pc = "done"
    /\ ag.max_iterations >= 2
    /\ ag.calls = ag.max_iterations
    /\ ~ ag.ret.success
    /\ ag.ret.response = "maximum iterations"
    /\ Len(ag.ret.actions_taken) = ag.max_iterations
    /\ ag.ret.actions_taken[1] = [tool |-> "no_such_tool", result |-> "Unknown tool"]
    /\ ag.ret.actions_taken[2] = [tool |-> "send_email", result |-> "Tool execution error"]

====
